---------------------------- MODULE Spec2Model ----------------------------
(***************************************************************************)
(* A model of the 8086 disassembler of src/src/main.rs: the decode loop of *)
(* run() (one action per loop iteration, the match arms as operators), the *)
(* label table, the construction of the "unlabeled" map and the emission   *)
(* loop.  Text is modelled as TLA+ strings, built the way format! builds   *)
(* it, so that what is written to stdout can be compared character by      *)
(* character.                                                              *)
(***************************************************************************)
EXTENDS Integers, Sequences, FiniteSets, TLC

(***************************************************************************)
(* Bounds of the model.                                                    *)
(***************************************************************************)
\* Longest byte stream drawn from an alphabet.
MaxLen == 4
\* Most one-byte instructions put in front of a branch under SpecTargets.
MaxPad == 3
\* Most bytes after the leading byte under SpecFamilies.
MaxTail == 4
\* Most instructions of a file under SpecBranch.
MaxUnits == 3

(***************************************************************************)
(* Name tables (main.rs lines 9-29).  Index 0 of the source is index 1.    *)
(***************************************************************************)
REG_NAMES ==
    << <<"al", "cl", "dl", "bl", "ah", "ch", "dh", "bh">>,
       <<"ax", "cx", "dx", "bx", "sp", "bp", "si", "di">> >>
R_M_NAMES == <<"bx + si", "bx + di", "bp + si", "bp + di", "si", "di", "bp", "bx">>
SEGMENT_NAMES == <<"es", "cs", "ss", "ds">>
ASCII_ADJUST_NAMES == <<"aam", "aad">>
BINARY_NAMES == <<"add", "or", "adc", "sbb", "and", "sub", "xor", "cmp">>
CALL_NAMES == <<"call", "jmp">>
LOGIC_NAMES == <<"rol", "ror", "rcl", "rcr", "shl", "shr", "N/A", "sar">>
STACK_NAMES == <<"push", "pop">>
UNARY_NAMES == <<"inc", "dec", "push", "pop">>
NAMES_1111011W == <<"test", "N/A", "not", "neg", "mul", "imul", "div", "idiv">>
NAMES_11111111 == <<"inc", "dec", "call", "call", "jmp", "jmp", "push", "N/A">>
JUMP2_NAMES == <<"loopnz", "loopz", "loop", "jcxz">>
JUMP4_NAMES ==
    <<"jo", "jno", "jb", "jnb", "je", "jne", "jbe", "jnbe",
      "js", "jns", "jp", "jnp", "jl", "jnl", "jle", "jnle">>

(***************************************************************************)
(* Integer helpers: shifts and masks of u8, two's complement.              *)
(***************************************************************************)
RECURSIVE Pow2(_)
Pow2(k) == IF k = 0 THEN 1 ELSE 2 * Pow2(k - 1)

\* (b >> k) & (2^n - 1)
Bits(b, k, n) == (b \div Pow2(k)) % Pow2(n)

\* i8::from_le_bytes([byte])
I8(byte) == IF byte >= 128 THEN byte - 256 ELSE byte

\* i16::from_le_bytes([lo, hi])
I16(lo, hi) == LET u == lo + 256 * hi IN IF u >= 32768 THEN u - 65536 ELSE u

(***************************************************************************)
(* Formatting: "{}" of an integer (decimal, '-' for negatives) and         *)
(* "{:8b}" of a u8 (binary, no leading zeros, right-aligned in a field of  *)
(* eight, filled with spaces).                                             *)
(***************************************************************************)
Digits == <<"0", "1", "2", "3", "4", "5", "6", "7", "8", "9">>

RECURSIVE FmtNat(_)
FmtNat(n) == IF n < 10 THEN Digits[n + 1] ELSE FmtNat(n \div 10) \o Digits[(n % 10) + 1]

FmtInt(n) == IF n < 0 THEN "-" \o FmtNat(-n) ELSE FmtNat(n)

RECURSIVE FmtBin(_)
FmtBin(n) == IF n < 2 THEN Digits[n + 1] ELSE FmtBin(n \div 2) \o Digits[(n % 2) + 1]

RECURSIVE PadLeft(_, _)
PadLeft(s, width) == IF Len(s) >= width THEN s ELSE PadLeft(" " \o s, width)

FmtBin8(byte) == PadLeft(FmtBin(byte), 8)

(***************************************************************************)
(* str::contains and str::replacen(.., 1).                                 *)
(***************************************************************************)
Find(hay, needle) ==
    LET hits == {i \in 1..(Len(hay) - Len(needle) + 1) :
                     SubSeq(hay, i, i + Len(needle) - 1) = needle}
    IN IF hits = {} THEN 0 ELSE CHOOSE i \in hits : \A j \in hits : i <= j

Contains(hay, needle) == Find(hay, needle) # 0

ReplaceFirst(hay, needle, with) ==
    LET i == Find(hay, needle)
    IN IF i = 0 THEN hay
       ELSE SubSeq(hay, 1, i - 1) \o with \o SubSeq(hay, i + Len(needle), Len(hay))


(***************************************************************************)
(* The byte cursor.  The iterator of run() is the stream bs and the number *)
(* i of bytes already taken; a read gives [ok, val, next], and ok = FALSE  *)
(* is the unwrap() of None (a panic).                                      *)
(***************************************************************************)
ReadFailed(i) == [ok |-> FALSE, val |-> 0, next |-> i]

\* A variant of next_u8 that yields 0 past the end of the file instead of panicking.
next_u8_or_zero(bs, i) ==
    [ok |-> TRUE, val |-> IF i < Len(bs) THEN bs[i + 1] ELSE 0, next |-> i + 1]

next_u8(bs, i) ==
    IF i < Len(bs) THEN [ok |-> TRUE, val |-> bs[i + 1], next |-> i + 1]
    ELSE ReadFailed(i)

next_i8(bs, i) ==
    IF i < Len(bs) THEN [ok |-> TRUE, val |-> I8(bs[i + 1]), next |-> i + 1]
    ELSE ReadFailed(i)

next_i16(bs, i, w) ==
    IF i >= Len(bs) THEN ReadFailed(i)
    ELSE IF w
         THEN IF i + 1 >= Len(bs) THEN ReadFailed(i + 1)
              ELSE [ok |-> TRUE, val |-> I16(bs[i + 1], bs[i + 2]), next |-> i + 2]
         ELSE [ok |-> TRUE, val |-> I8(bs[i + 1]), next |-> i + 1]

(***************************************************************************)
(* -disp of an i16.  -(-32768) overflows: a build with overflow checks     *)
(* (the debug profile) panics, a build without (the release profile)       *)
(* wraps to -32768.  oc says which build runs.                             *)
(***************************************************************************)
NegI16(disp, oc) ==
    IF disp = -32768
    THEN IF oc THEN [ok |-> FALSE, val |-> 0] ELSE [ok |-> TRUE, val |-> -32768]
    ELSE [ok |-> TRUE, val |-> -disp]

(***************************************************************************)
(* disassemble_r_m: [ok, panic, text, next].                               *)
(***************************************************************************)
EaFailed(reason, i) == [ok |-> FALSE, panic |-> reason, text |-> "", next |-> i]

EaText(text, i) == [ok |-> TRUE, panic |-> "", text |-> text, next |-> i]

\* The final match on disp.cmp(&0).
DispText(r_m, disp, i, oc) ==
    IF disp > 0
    THEN EaText("[" \o R_M_NAMES[r_m + 1] \o " + " \o FmtInt(disp) \o "]", i)
    ELSE IF disp < 0
         THEN LET neg == NegI16(disp, oc)
              IN IF neg.ok
                 THEN EaText("[" \o R_M_NAMES[r_m + 1] \o " - " \o FmtInt(neg.val) \o "]", i)
                 ELSE EaFailed("overflow", i)
         ELSE EaText("[" \o R_M_NAMES[r_m + 1] \o "]", i)

disassemble_r_m(bs, i, w, m0d, r_m, oc) ==
    CASE m0d = 0 ->
           IF r_m = 6
           THEN LET a == next_i16(bs, i, TRUE)
                IN IF a.ok THEN EaText("[" \o FmtInt(a.val) \o "]", a.next)
                   ELSE EaFailed("truncated", a.next)
           ELSE DispText(r_m, 0, i, oc)
      [] m0d = 1 ->
           LET a == next_i16(bs, i, FALSE)
           IN IF a.ok THEN DispText(r_m, a.val, a.next, oc)
              ELSE EaFailed("truncated", a.next)
      [] m0d = 2 ->
           LET a == next_i16(bs, i, TRUE)
           IN IF a.ok THEN DispText(r_m, a.val, a.next, oc)
              ELSE EaFailed("truncated", a.next)
      [] OTHER -> EaText(REG_NAMES[w + 1][r_m + 1], i)

(***************************************************************************)
(* What one iteration of the decode loop does: [ok, panic, next, ins,      *)
(* text, segment, locked, labels].  ok = FALSE is a panic with its cause;  *)
(* ins says whether instructions.insert(position, text) ran; segment,      *)
(* locked and labels are the values the arm leaves.                        *)
(***************************************************************************)
EmptyMap == [k \in {} |-> ""]

\* BTreeMap::insert, HashMap::insert
Insert(map, key, value) ==
    [k \in DOMAIN map \cup {key} |-> IF k = key THEN value ELSE map[k]]

Panicked(reason) ==
    [ok |-> FALSE, panic |-> reason, next |-> 0, ins |-> FALSE, text |-> "",
     segment |-> "", locked |-> FALSE, labels |-> EmptyMap]

Inserted(next, text, segment, locked, labels) ==
    [ok |-> TRUE, panic |-> "", next |-> next, ins |-> TRUE, text |-> text,
     segment |-> segment, locked |-> locked, labels |-> labels]

NotInserted(next, segment, locked, labels) ==
    [ok |-> TRUE, panic |-> "", next |-> next, ins |-> FALSE, text |-> "",
     segment |-> segment, locked |-> locked, labels |-> labels]

\* if !segment.is_empty() { r_m_text = format!("{segment}:{r_m_text}"); segment = ""; }
ApplySegment(segment, r_m_text) ==
    IF segment # "" THEN segment \o ":" \o r_m_text ELSE r_m_text

(***************************************************************************)
(* The leading bytes of each match arm of run(), in the order of the       *)
(* source.  The arms are disjoint.                                         *)
(***************************************************************************)
IsRegMemReg(b) ==
    \/ b < 64 /\ b % 8 < 4
    \/ b \in 132..139
    \/ b \in {141, 196, 197}

IsImmRegMem(b) ==
    b \in (128..131) \cup {198, 199, 143} \cup (208..211) \cup {246, 247, 254, 255}

IsMovImmReg(b) == b \in 176..191

IsAccumulator(b) ==
    \/ b < 64 /\ b % 8 \in {4, 5}
    \/ b \in (160..163) \cup {168, 169} \cup (228..231)

IsUnaryReg(b) == b \in 64..95

IsStackSegment(b) == b \in {6, 7, 14, 15, 22, 23, 30, 31}

IsSegmentOverride(b) == b \in {38, 46, 54, 62}

IsXchgAcc(b) == b \in 144..151

IsInOutDx(b) == b \in 236..239

IsRetData(b) == b \in {194, 202}

IsInt(b) == b = 205

IsRep(b) == b = 243

IsShortJump(b) == b = 235 \/ b \in 224..227 \/ b \in 112..127

IsNearCallJmp(b) == b \in {232, 233}

IsFarCallJmp(b) == b \in {154, 234}

IsAsciiAdjust(b) == b \in {212, 213}

(***************************************************************************)
(* Arm 1: register/memory <-> register (lines 100-150).                    *)
(***************************************************************************)
RegMemRegOpText(byte1) ==
    CASE byte1 = 141 -> "lea"
      [] byte1 = 196 -> "les"
      [] byte1 = 197 -> "lds"
      [] byte1 \in {132, 133} -> "test"
      [] byte1 \in {134, 135} -> "xchg"
      [] byte1 \in 136..139 -> "mov"
      [] OTHER -> BINARY_NAMES[Bits(byte1, 3, 3) + 1]

\* if d == 1 && !locked { "{op} {reg}, {r_m}\n" } else { "{op} {r_m}, {reg}\n" }
RegMemRegText(op_text, reg_text, r_m_text, d, locked) ==
    IF d = 1 /\ ~locked
    THEN op_text \o " " \o reg_text \o ", " \o r_m_text \o "\n"
    ELSE op_text \o " " \o r_m_text \o ", " \o reg_text \o "\n"

run_reg_mem_reg(bs, position, byte1, segment, locked, labels, oc) ==
    LET special == byte1 \in {141, 196, 197}
        d == IF special THEN 1 ELSE Bits(byte1, 1, 1)
        w == IF special THEN 1 ELSE Bits(byte1, 0, 1)
        b2 == next_u8(bs, position + 1)
    IN IF ~b2.ok THEN Panicked("truncated")
       ELSE LET byte2 == b2.val
                m0d == Bits(byte2, 6, 2)
                reg == Bits(byte2, 3, 3)
                r_m == Bits(byte2, 0, 3)
                ea == disassemble_r_m(bs, b2.next, w, m0d, r_m, oc)
            IN IF ~ea.ok THEN Panicked(ea.panic)
               ELSE Inserted(ea.next,
                             RegMemRegText(RegMemRegOpText(byte1), REG_NAMES[w + 1][reg + 1],
                                           ApplySegment(segment, ea.text), d, locked),
                             "", locked, labels)

(***************************************************************************)
(* Arm 2: immediate to register/memory and the one-operand groups (lines   *)
(* 158-211).                                                               *)
(***************************************************************************)
ImmRegMemOpText(group, op) ==
    CASE group = 35 -> "pop"
      [] group = 49 -> "mov"
      [] group = 32 -> BINARY_NAMES[op + 1]
      [] group = 52 -> LOGIC_NAMES[op + 1]
      [] group = 61 -> NAMES_1111011W[op + 1]
      [] OTHER -> NAMES_11111111[op + 1]

run_imm_reg_mem(bs, position, byte1, segment, locked, labels, oc) ==
    LET group == Bits(byte1, 2, 6)
        s_v == Bits(byte1, 1, 1)
        w == Bits(byte1, 0, 1)
        b2 == next_u8(bs, position + 1)
    IN IF ~b2.ok THEN Panicked("truncated")
       ELSE LET byte2 == b2.val
                m0d == Bits(byte2, 6, 2)
                op == Bits(byte2, 3, 3)
                r_m == Bits(byte2, 0, 3)
                \* (byte2 >> 3).trailing_zeros() >= 3: the three bits of op are 0.
                mov_test == group = 49 \/ (group = 61 /\ (byte2 \div 8) % 8 = 0)
                op_text == ImmRegMemOpText(group, op)
                unit_text == IF w = 1 THEN "word" ELSE "byte"
                ea == disassemble_r_m(bs, b2.next, w, m0d, r_m, oc)
            IN IF ~ea.ok THEN Panicked(ea.panic)
               ELSE LET r_m_text == ApplySegment(segment, ea.text)
                    IN IF mov_test \/ group = 32
                       THEN LET data == next_i16(bs, ea.next, (mov_test \/ s_v = 0) /\ w = 1)
                            IN IF ~data.ok THEN Panicked("truncated")
                               ELSE Inserted(data.next,
                                             op_text \o " " \o r_m_text \o ", " \o unit_text
                                                 \o " " \o FmtInt(data.val) \o "\n",
                                             "", locked, labels)
                       ELSE IF group = 52
                       THEN Inserted(ea.next,
                                     op_text \o " " \o unit_text \o " " \o r_m_text \o ", "
                                         \o (IF s_v = 0 THEN "1" ELSE "cl") \o "\n",
                                     "", locked, labels)
                       ELSE IF byte1 = 255 /\ op \in {3, 5}
                       THEN Inserted(ea.next,
                                     op_text \o " " \o unit_text \o " far " \o r_m_text \o "\n",
                                     "", locked, labels)
                       ELSE Inserted(ea.next,
                                     op_text \o " " \o unit_text \o " " \o r_m_text \o "\n",
                                     "", locked, labels)

(***************************************************************************)
(* Arm 3: MOV immediate to register (lines 214-224).                       *)
(***************************************************************************)
run_mov_imm_reg(bs, position, byte1, segment, locked, labels, oc) ==
    LET w == Bits(byte1, 3, 1)
        reg == Bits(byte1, 0, 3)
        data == next_i16(bs, position + 1, w = 1)
    IN IF ~data.ok THEN Panicked("truncated")
       ELSE Inserted(data.next,
                     "mov " \o REG_NAMES[w + 1][reg + 1] \o ", " \o FmtInt(data.val) \o "\n",
                     segment, locked, labels)

(***************************************************************************)
(* Arm 4: accumulator forms (lines 227-268).                               *)
(***************************************************************************)
AccumulatorOpText(byte1) ==
    CASE byte1 \div 2 \in {80, 81} -> "mov"
      [] byte1 \div 2 = 84 -> "test"
      [] byte1 \div 2 = 114 -> "in"
      [] byte1 \div 2 = 115 -> "out"
      [] OTHER -> BINARY_NAMES[Bits(byte1, 3, 3) + 1]

run_accumulator(bs, position, byte1, segment, locked, labels, oc) ==
    LET mov == byte1 \div 4 = 40
        in_out == byte1 \div 4 = 57
        e == Bits(byte1, 1, 1) = 0
        w == Bits(byte1, 0, 1) = 1
        data == IF in_out THEN next_u8(bs, position + 1)
                ELSE next_i16(bs, position + 1, mov \/ w)
    IN IF ~data.ok THEN Panicked("truncated")
       ELSE LET op_text == AccumulatorOpText(byte1)
                acc_text == IF w THEN "ax" ELSE "al"
                data_text == IF mov THEN "[" \o FmtInt(data.val) \o "]" ELSE FmtInt(data.val)
            IN Inserted(data.next,
                        IF e THEN op_text \o " " \o acc_text \o ", " \o data_text \o "\n"
                        ELSE op_text \o " " \o data_text \o ", " \o acc_text \o "\n",
                        segment, locked, labels)

(***************************************************************************)
(* Arms 5-11: the forms with no ModRM byte (lines 271-345).                *)
(***************************************************************************)
run_unary_reg(bs, position, byte1, segment, locked, labels, oc) ==
    Inserted(position + 1,
             UNARY_NAMES[Bits(byte1, 3, 2) + 1] \o " " \o REG_NAMES[2][Bits(byte1, 0, 3) + 1]
                 \o "\n",
             segment, locked, labels)

run_stack_segment(bs, position, byte1, segment, locked, labels, oc) ==
    Inserted(position + 1,
             STACK_NAMES[Bits(byte1, 0, 1) + 1] \o " " \o SEGMENT_NAMES[Bits(byte1, 3, 2) + 1]
                 \o "\n",
             segment, locked, labels)

\* The segment override prefix: segment = SEGMENT_NAMES[sg], and no insert.
run_segment(bs, position, byte1, segment, locked, labels, oc) ==
    NotInserted(position + 1, SEGMENT_NAMES[Bits(byte1, 3, 2) + 1], locked, labels)

run_xchg_acc(bs, position, byte1, segment, locked, labels, oc) ==
    Inserted(position + 1, "xchg ax, " \o REG_NAMES[2][Bits(byte1, 0, 3) + 1] \o "\n",
             segment, locked, labels)

run_in_out_dx(bs, position, byte1, segment, locked, labels, oc) ==
    LET acc_text == IF Bits(byte1, 0, 1) = 1 THEN "ax" ELSE "al"
    IN Inserted(position + 1,
                IF Bits(byte1, 1, 1) = 1 THEN "out dx, " \o acc_text \o "\n"
                ELSE "in " \o acc_text \o ", dx\n",
                segment, locked, labels)

run_ret_data(bs, position, byte1, segment, locked, labels, oc) ==
    LET data == next_i16(bs, position + 1, TRUE)
    IN IF ~data.ok THEN Panicked("truncated")
       ELSE Inserted(data.next,
                     (IF Bits(byte1, 3, 1) = 1 THEN "retf" ELSE "ret") \o " "
                         \o FmtInt(data.val) \o "\n",
                     segment, locked, labels)

run_int(bs, position, byte1, segment, locked, labels, oc) ==
    LET data == next_u8(bs, position + 1)
    IN IF ~data.ok THEN Panicked("truncated")
       ELSE Inserted(data.next, "int " \o FmtInt(data.val) \o "\n", segment, locked, labels)

(***************************************************************************)
(* Arm 12: REP and the string operation it repeats (lines 348-365).        *)
(***************************************************************************)
RepOpText(op) ==
    CASE op = 2 -> "movs"
      [] op = 3 -> "cmps"
      [] op = 5 -> "stos"
      [] op = 6 -> "lods"
      [] op = 7 -> "scas"
      [] OTHER -> ""

run_rep(bs, position, byte1, segment, locked, labels, oc) ==
    LET b2 == next_u8(bs, position + 1)
    IN IF ~b2.ok THEN Panicked("truncated")
       ELSE LET op == Bits(b2.val, 1, 3)
                unit_text == IF Bits(b2.val, 0, 1) = 1 THEN "w" ELSE "b"
            IN IF RepOpText(op) = "" THEN Panicked("unreachable")
               ELSE Inserted(b2.next, "rep " \o RepOpText(op) \o unit_text \o "\n",
                             segment, locked, labels)

(***************************************************************************)
(* The label table: labels.entry(target).or_insert_with(|| "label{len}").  *)
(***************************************************************************)
\* A variant of LabelEntry that names the target anew at every reference
\* (labels.insert in place of entry().or_insert_with()).
LabelEntryOverwrite(labels, target) ==
    Insert(labels, target, "label" \o FmtInt(Cardinality(DOMAIN labels)))

LabelEntry(labels, target) ==
    IF target \in DOMAIN labels THEN labels
    ELSE labels @@ (target :> ("label" \o FmtInt(Cardinality(DOMAIN labels))))

\* position.checked_add_signed(length + disp): None (a panic) below 0.
BranchTarget(position, length, disp) == position + length + disp

(***************************************************************************)
(* Arm 13: short jumps, LOOP variants (lines 367-387).                     *)
(***************************************************************************)
ShortJumpOpText(byte1) ==
    CASE Bits(byte1, 2, 6) = 58 -> "jmp"
      [] Bits(byte1, 2, 6) = 56 -> JUMP2_NAMES[Bits(byte1, 0, 2) + 1]
      [] OTHER -> JUMP4_NAMES[Bits(byte1, 0, 4) + 1]

\* A variant of ShortJumpText whose comment holds the displacement alone.
ShortJumpTextBare(op_text, label, ip_inc8) ==
    op_text \o " " \o label \o " ; " \o FmtInt(ip_inc8) \o "\n"

\* format!("{op_text} {label} ; {ip_inc8} short\n")
ShortJumpText(op_text, label, ip_inc8) ==
    op_text \o " " \o label \o " ; " \o FmtInt(ip_inc8) \o " short\n"

run_short_jump(bs, position, byte1, segment, locked, labels, oc) ==
    LET ip_inc8 == next_i8(bs, position + 1)
    IN IF ~ip_inc8.ok THEN Panicked("truncated")
       ELSE LET target == BranchTarget(position, 2, ip_inc8.val)
            IN IF target < 0 THEN Panicked("negative target")
               ELSE LET labelled == LabelEntry(labels, target)
                    IN Inserted(ip_inc8.next,
                                ShortJumpText(ShortJumpOpText(byte1), labelled[target],
                                              ip_inc8.val),
                                segment, locked, labelled)

(***************************************************************************)
(* Arms 14-15: near and far CALL/JMP (lines 390-416).                      *)
(***************************************************************************)
run_near_call_jmp(bs, position, byte1, segment, locked, labels, oc) ==
    LET ip_inc == next_i16(bs, position + 1, TRUE)
    IN IF ~ip_inc.ok THEN Panicked("truncated")
       ELSE LET target == BranchTarget(position, 3, ip_inc.val)
            IN IF target < 0 THEN Panicked("negative target")
               ELSE LET labelled == LabelEntry(labels, target)
                    IN Inserted(ip_inc.next,
                                CALL_NAMES[Bits(byte1, 0, 1) + 1] \o " " \o labelled[target]
                                    \o " ; " \o FmtInt(ip_inc.val) \o "\n",
                                segment, locked, labelled)

run_far_call_jmp(bs, position, byte1, segment, locked, labels, oc) ==
    LET ip == next_i16(bs, position + 1, TRUE)
    IN IF ~ip.ok THEN Panicked("truncated")
       ELSE LET cs == next_i16(bs, ip.next, TRUE)
            IN IF ~cs.ok THEN Panicked("truncated")
               ELSE Inserted(cs.next,
                             CALL_NAMES[Bits(byte1, 6, 1) + 1] \o " " \o FmtInt(cs.val) \o ":"
                                 \o FmtInt(ip.val) \o "\n",
                             segment, locked, labels)

(***************************************************************************)
(* Arm 16: AAM, AAD (lines 419-431).                                       *)
(***************************************************************************)
run_ascii_adjust(bs, position, byte1, segment, locked, labels, oc) ==
    LET b2 == next_u8(bs, position + 1)
    IN IF ~b2.ok THEN Panicked("truncated")
       ELSE IF b2.val = 10
            THEN Inserted(b2.next, ASCII_ADJUST_NAMES[Bits(byte1, 0, 1) + 1] \o "\n",
                          segment, locked, labels)
            ELSE Panicked("unreachable")

(***************************************************************************)
(* Arm 17: the one-byte table, LOCK, and the bytes no arm knows (lines     *)
(* 434-472).                                                               *)
(***************************************************************************)
FixedOpText(byte1) ==
    CASE byte1 = 215 -> "xlat\n"
      [] byte1 = 159 -> "lahf\n"
      [] byte1 = 158 -> "sahf\n"
      [] byte1 = 156 -> "pushf\n"
      [] byte1 = 157 -> "popf\n"
      [] byte1 = 55 -> "aaa\n"
      [] byte1 = 39 -> "daa\n"
      [] byte1 = 63 -> "aas\n"
      [] byte1 = 47 -> "das\n"
      [] byte1 = 152 -> "cbw\n"
      [] byte1 = 153 -> "cwd\n"
      [] byte1 = 195 -> "ret\n"
      [] byte1 = 203 -> "retf\n"
      [] byte1 = 204 -> "int3\n"
      [] byte1 = 206 -> "into\n"
      [] byte1 = 207 -> "iret\n"
      [] byte1 = 248 -> "clc\n"
      [] byte1 = 245 -> "cmc\n"
      [] byte1 = 249 -> "stc\n"
      [] byte1 = 252 -> "cld\n"
      [] byte1 = 253 -> "std\n"
      [] byte1 = 250 -> "cli\n"
      [] byte1 = 251 -> "sti\n"
      [] byte1 = 244 -> "hlt\n"
      [] byte1 = 155 -> "wait\n"
      [] byte1 = 240 -> "lock "
      [] OTHER -> ""

\* format!("; {byte1:8b}\n")
UnknownText(byte1) == "; " \o FmtBin8(byte1) \o "\n"

\* A variant of run_fixed that stops at a byte it does not know.
run_fixed_strict(bs, position, byte1, segment, locked, labels, oc) ==
    IF FixedOpText(byte1) = "" THEN Panicked("unknown opcode")
    ELSE Inserted(position + 1, FixedOpText(byte1), segment,
                  IF byte1 = 240 THEN TRUE ELSE locked, labels)

run_fixed(bs, position, byte1, segment, locked, labels, oc) ==
    LET op_text == FixedOpText(byte1)
    IN Inserted(position + 1,
                IF op_text = "" THEN UnknownText(byte1) ELSE op_text,
                segment,
                IF byte1 = 240 THEN TRUE ELSE locked,
                labels)

(***************************************************************************)
(* match byte1 { ... }                                                     *)
(***************************************************************************)
Arm(byte1) ==
    CASE IsRegMemReg(byte1) -> "reg_mem_reg"
      [] IsImmRegMem(byte1) -> "imm_reg_mem"
      [] IsMovImmReg(byte1) -> "mov_imm_reg"
      [] IsAccumulator(byte1) -> "accumulator"
      [] IsUnaryReg(byte1) -> "unary_reg"
      [] IsStackSegment(byte1) -> "stack_segment"
      [] IsSegmentOverride(byte1) -> "segment"
      [] IsXchgAcc(byte1) -> "xchg_acc"
      [] IsInOutDx(byte1) -> "in_out_dx"
      [] IsRetData(byte1) -> "ret_data"
      [] IsInt(byte1) -> "int"
      [] IsRep(byte1) -> "rep"
      [] IsShortJump(byte1) -> "short_jump"
      [] IsNearCallJmp(byte1) -> "near_call_jmp"
      [] IsFarCallJmp(byte1) -> "far_call_jmp"
      [] IsAsciiAdjust(byte1) -> "ascii_adjust"
      [] OTHER -> "fixed"

Decode(bs, position, byte1, segment, locked, labels, oc) ==
    CASE Arm(byte1) = "reg_mem_reg" -> run_reg_mem_reg(bs, position, byte1, segment, locked, labels, oc)
      [] Arm(byte1) = "imm_reg_mem" -> run_imm_reg_mem(bs, position, byte1, segment, locked, labels, oc)
      [] Arm(byte1) = "mov_imm_reg" -> run_mov_imm_reg(bs, position, byte1, segment, locked, labels, oc)
      [] Arm(byte1) = "accumulator" -> run_accumulator(bs, position, byte1, segment, locked, labels, oc)
      [] Arm(byte1) = "unary_reg" -> run_unary_reg(bs, position, byte1, segment, locked, labels, oc)
      [] Arm(byte1) = "stack_segment" -> run_stack_segment(bs, position, byte1, segment, locked, labels, oc)
      [] Arm(byte1) = "segment" -> run_segment(bs, position, byte1, segment, locked, labels, oc)
      [] Arm(byte1) = "xchg_acc" -> run_xchg_acc(bs, position, byte1, segment, locked, labels, oc)
      [] Arm(byte1) = "in_out_dx" -> run_in_out_dx(bs, position, byte1, segment, locked, labels, oc)
      [] Arm(byte1) = "ret_data" -> run_ret_data(bs, position, byte1, segment, locked, labels, oc)
      [] Arm(byte1) = "int" -> run_int(bs, position, byte1, segment, locked, labels, oc)
      [] Arm(byte1) = "rep" -> run_rep(bs, position, byte1, segment, locked, labels, oc)
      [] Arm(byte1) = "short_jump" -> run_short_jump(bs, position, byte1, segment, locked, labels, oc)
      [] Arm(byte1) = "near_call_jmp" -> run_near_call_jmp(bs, position, byte1, segment, locked, labels, oc)
      [] Arm(byte1) = "far_call_jmp" -> run_far_call_jmp(bs, position, byte1, segment, locked, labels, oc)
      [] Arm(byte1) = "ascii_adjust" -> run_ascii_adjust(bs, position, byte1, segment, locked, labels, oc)
      [] OTHER -> run_fixed(bs, position, byte1, segment, locked, labels, oc)

(***************************************************************************)
(* The state of run().                                                     *)
(***************************************************************************)
VARIABLES
    bytes,            \* the input file, a sequence of u8
    overflow_checks,  \* the build: TRUE panics on integer overflow, FALSE wraps
    pc,               \* "decode", "emit", "done" or "panic"
    panic,            \* the cause of the panic, "" while there is none
    cursor,           \* the number of bytes the iterator has yielded
    instructions,     \* BTreeMap: byte position -> text
    labels,           \* HashMap: target position -> label name
    segment,          \* the pending segment override, "" for none
    locked,
    release_lock,
    unlabeled,        \* HashMap: label name and a space -> target position
    emitted,          \* the iterations of the emission loop so far
    out,              \* stdout: the text of each write, in order
    history           \* the iterations of the decode loop so far

vars ==
    <<bytes, overflow_checks, pc, panic, cursor, instructions, labels, segment, locked,
      release_lock, unlabeled, emitted, out, history>>

\* The n-th key of a BTreeMap in iteration (ascending) order, n from 1.
NthKey(map, n) ==
    CHOOSE k \in DOMAIN map : Cardinality({j \in DOMAIN map : j < k}) = n - 1

(***************************************************************************)
(* Lines 481-486: the labels whose target is no key of instructions, keyed *)
(* by the label name followed by a space.                                  *)
(***************************************************************************)
\* A variant of BuildUnlabeled with the contains_key test inverted.
BuildUnlabeledInverted(labs, instrs) ==
    LET resolved == {t \in DOMAIN labs : t \in DOMAIN instrs}
    IN [key \in {labs[t] \o " " : t \in resolved} |->
            CHOOSE t \in resolved : labs[t] \o " " = key]

BuildUnlabeled(labs, instrs) ==
    LET dangling == {t \in DOMAIN labs : t \notin DOMAIN instrs}
    IN [key \in {labs[t] \o " " : t \in dangling} |->
            CHOOSE t \in dangling : labs[t] \o " " = key]

(***************************************************************************)
(* Lines 493-497: for each entry of unlabeled the string contains, replace *)
(* its first occurrence by the target.  The HashMap is walked in an        *)
(* unspecified order; a replacement leaves only digits, and an instruction *)
(* text holds at most one label, so the order does not change the result.  *)
(***************************************************************************)
RECURSIVE SubstituteFrom(_, _, _)
SubstituteFrom(string, unlab, keys) ==
    IF keys = {} THEN string
    ELSE LET label == CHOOSE k \in keys : TRUE
             replaced == IF Contains(string, label)
                         THEN ReplaceFirst(string, label, FmtInt(unlab[label]))
                         ELSE string
         IN SubstituteFrom(replaced, unlab, keys \ {label})

SubstituteUnlabeled(string, unlab) == SubstituteFrom(string, unlab, DOMAIN unlab)

\* Lines 490-492: the declaration written before the instruction at position.
LabelDeclaration(labs, position) ==
    IF position \in DOMAIN labs THEN <<labs[position] \o ":\n">> ELSE <<>>

(***************************************************************************)
(* Initial states: the file's bytes, drawn from an alphabet.               *)
(***************************************************************************)
Streams(alphabet, maxlen) == UNION {[1..n -> alphabet] : n \in 0..maxlen}

InitWith(streams) ==
    /\ bytes \in streams
    /\ overflow_checks \in BOOLEAN
    /\ pc = "decode"
    /\ panic = ""
    /\ cursor = 0
    /\ instructions = EmptyMap
    /\ labels = EmptyMap
    /\ segment = ""
    /\ locked = FALSE
    /\ release_lock = FALSE
    /\ unlabeled = EmptyMap
    /\ emitted = <<>>
    /\ out = <<>>
    /\ history = <<>>

\* es:, lock, rep, movsb (an unknown byte when it leads), inc ax, mov r16 <- r/m16,
\* pop es.  As a ModRM byte 64 is [bx + si + disp8] and 7 is [bx].
PrefixAlphabet == {38, 240, 243, 164, 64, 139, 7}

Init == InitWith(Streams(PrefixAlphabet, MaxLen))

(***************************************************************************)
(* One iteration of the decode loop (lines 89-479) that does not panic.    *)
(***************************************************************************)
\* A variant of DecodeInstruction whose loop never releases the lock (no
\* release_lock block at the end of the iteration).
DecodeInstructionNoRelease ==
    /\ pc = "decode"
    /\ cursor < Len(bytes)
    /\ LET position == cursor
           byte1 == bytes[cursor + 1]
           r == Decode(bytes, position, byte1, segment, locked, labels, overflow_checks)
       IN /\ r.ok
          /\ instructions' = IF r.ins THEN Insert(instructions, position, r.text)
                             ELSE instructions
          /\ labels' = r.labels
          /\ segment' = r.segment
          /\ locked' = r.locked
          /\ release_lock' = (locked \/ release_lock)
          /\ cursor' = r.next
          /\ history' = Append(history,
                               [position |-> position, byte1 |-> byte1, next |-> r.next,
                                arm |-> Arm(byte1), ins |-> r.ins, text |-> r.text,
                                segment_before |-> segment, segment_after |-> r.segment,
                                locked |-> locked])
    /\ UNCHANGED <<bytes, overflow_checks, pc, panic, unlabeled, emitted, out>>

DecodeInstruction ==
    /\ pc = "decode"
    /\ cursor < Len(bytes)
    /\ LET position == cursor
           byte1 == bytes[cursor + 1]
           \* if locked { release_lock = true; }
           release == locked \/ release_lock
           r == Decode(bytes, position, byte1, segment, locked, labels, overflow_checks)
       IN /\ r.ok
          /\ instructions' = IF r.ins THEN Insert(instructions, position, r.text)
                             ELSE instructions
          /\ labels' = r.labels
          /\ segment' = r.segment
          \* if release_lock { locked = false; release_lock = false; }
          /\ locked' = IF release THEN FALSE ELSE r.locked
          /\ release_lock' = IF release THEN FALSE ELSE release
          /\ cursor' = r.next
          /\ history' = Append(history,
                               [position |-> position, byte1 |-> byte1, next |-> r.next,
                                arm |-> Arm(byte1), ins |-> r.ins, text |-> r.text,
                                segment_before |-> segment, segment_after |-> r.segment,
                                locked |-> locked])
    /\ UNCHANGED <<bytes, overflow_checks, pc, panic, unlabeled, emitted, out>>

(***************************************************************************)
(* An iteration of the decode loop that panics: run() unwinds, nothing is  *)
(* inserted and nothing is written.                                        *)
(***************************************************************************)
DecodePanic ==
    /\ pc = "decode"
    /\ cursor < Len(bytes)
    /\ LET r == Decode(bytes, cursor, bytes[cursor + 1], segment, locked, labels,
                       overflow_checks)
       IN /\ ~r.ok
          /\ panic' = r.panic
    /\ pc' = "panic"
    /\ UNCHANGED <<bytes, overflow_checks, cursor, instructions, labels, segment, locked,
                   release_lock, unlabeled, emitted, out, history>>

(***************************************************************************)
(* The iterator is exhausted (line 89): build unlabeled (lines 481-486)    *)
(* and write the directive (line 488).                                     *)
(***************************************************************************)
EndOfStream ==
    /\ pc = "decode"
    /\ cursor = Len(bytes)
    /\ unlabeled' = BuildUnlabeled(labels, instructions)
    /\ out' = <<"bits 16\n">>
    /\ pc' = "emit"
    /\ UNCHANGED <<bytes, overflow_checks, panic, cursor, instructions, labels, segment,
                   locked, release_lock, emitted, history>>

(***************************************************************************)
(* One iteration of the emission loop (lines 489-499).                     *)
(***************************************************************************)
EmitInstruction ==
    /\ pc = "emit"
    /\ Len(emitted) < Cardinality(DOMAIN instructions)
    /\ LET position == NthKey(instructions, Len(emitted) + 1)
           declaration == LabelDeclaration(labels, position)
           string == SubstituteUnlabeled(instructions[position], unlabeled)
       IN /\ instructions' = [instructions EXCEPT ![position] = string]
          /\ out' = out \o declaration \o <<string>>
          /\ emitted' = Append(emitted,
                               [position |-> position, declared |-> declaration # <<>>,
                                at |-> Len(out) + Len(declaration) + 1])
    /\ UNCHANGED <<bytes, overflow_checks, pc, panic, cursor, labels, segment, locked,
                   release_lock, unlabeled, history>>

\* The emission loop ends and run() returns.
Finish ==
    /\ pc = "emit"
    /\ Len(emitted) = Cardinality(DOMAIN instructions)
    /\ pc' = "done"
    /\ UNCHANGED <<bytes, overflow_checks, panic, cursor, instructions, labels, segment,
                   locked, release_lock, unlabeled, emitted, out, history>>

Next ==
    \/ DecodeInstruction
    \/ DecodePanic
    \/ EndOfStream
    \/ EmitInstruction
    \/ Finish

Spec == Init /\ [][Next]_vars

(***************************************************************************)
(* Further sets of input files.                                            *)
(***************************************************************************)
\* One or two leading bytes of every match arm: mov r16 <- r/m16, add r/m16 <- imm16,
\* the 1111011W group, mov ax <- imm16, add ax <- imm16, in al, push ax, push es, es:,
\* xchg ax ax, in al dx, ret imm16, int, rep, jne, call near, call far, aam, lock, ret,
\* and two bytes no arm knows.
FamilyLeads ==
    {139, 129, 246, 184, 5, 228, 80, 6, 38, 144, 236, 194, 205, 243, 117, 232, 154, 212,
     240, 195, 96, 241}

\* As a ModRM byte: 10 is mod 00, 70 is mod 01, 128 is mod 10.  10 is also the second
\* byte AAM wants.
OperandAlphabet == {10, 70, 128}

InitFamilies ==
    InitWith({<<lead>> \o tail : lead \in FamilyLeads,
                                 tail \in Streams(OperandAlphabet, MaxTail)})

SpecFamilies == InitFamilies /\ [][Next]_vars

\* Whole instructions: jne with the displacements 0, 1, 2, -2 and -4, loop -2, call
\* near with 0, -1 and -3, inc ax.
BranchUnits ==
    {<<117, d>> : d \in {0, 1, 2, 254, 252}}
        \cup {<<226, 254>>, <<232, 0, 0>>, <<232, 255, 255>>, <<232, 253, 255>>, <<64>>}

\* The files made of at most n units.
RECURSIVE UnitStreams(_)
UnitStreams(n) ==
    IF n = 0 THEN {<<>>}
    ELSE UnitStreams(n - 1)
             \cup {s \o u : s \in UnitStreams(n - 1), u \in BranchUnits}

InitBranch == InitWith(UnitStreams(MaxUnits))

SpecBranch == InitBranch /\ [][Next]_vars

\* n one-byte instructions (inc ax).
Pad(n) == [k \in 1..n |-> 64]

\* The bytes of a 16-bit displacement tried under SpecTargets.
EdgeBytes == {0, 1, 127, 128, 254, 255}

\* jne, loop, jmp short with every 8-bit displacement, and call, jmp near with the
\* 16-bit displacements of EdgeBytes, each after 0..MaxPad one-byte instructions.
InitTargets ==
    InitWith({Pad(n) \o <<op, d>> : n \in 0..MaxPad, op \in {117, 226, 235}, d \in 0..255}
             \cup {Pad(n) \o <<op, lo, hi>> :
                       n \in 0..MaxPad, op \in {232, 233}, lo \in EdgeBytes, hi \in EdgeBytes})

SpecTargets == InitTargets /\ [][Next]_vars

\* mov r16 <- r/m16, the ModRM bytes 64 (mod 01) and 128 (mod 10, and as a leading
\* byte add r/m8 <- imm8), and the displacement bytes 0, 1, 127, 255.
EaAlphabet == {139, 64, 128, 0, 1, 127, 255}

InitEa == InitWith(Streams(EaAlphabet, MaxLen))

SpecEa == InitEa /\ [][Next]_vars

(***************************************************************************)
(* What the claims speak of.                                               *)
(***************************************************************************)
Range(seq) == {seq[i] : i \in DOMAIN seq}

Decoded == pc \in {"emit", "done"}

\* The bytes the decode of the entry at a key consumed.
ConsumedAt(key) ==
    LET h == CHOOSE e \in Range(history) : e.position = key IN h.next - h.position

IsBranch(h) == h.arm \in {"short_jump", "near_call_jmp"}

\* start + length + displacement, read from the file's bytes.
TargetOf(h) ==
    IF h.arm = "short_jump"
    THEN h.position + 2 + I8(bytes[h.position + 2])
    ELSE h.position + 3 + I16(bytes[h.position + 2], bytes[h.position + 3])

\* The text written for the instruction at a position.
LineOf(position) ==
    LET e == CHOOSE x \in Range(emitted) : x.position = position IN out[e.at]

(***************************************************************************)
(* C2.  After a decode pass, the keys of the instruction map are           *)
(* contiguous: the first key is 0 and each next key is the previous key    *)
(* plus the bytes consumed while decoding the previous entry.  The segment *)
(* override arm consumes a byte and inserts nothing, so the statement      *)
(* fails on the code.                                                      *)
(***************************************************************************)
C2_KeysContiguous ==
    Decoded =>
        LET keys == DOMAIN instructions
        IN /\ keys # {} => 0 \in keys
           /\ \A k \in keys :
                  (\E later \in keys : later > k) =>
                      /\ k + ConsumedAt(k) \in keys
                      /\ \A j \in keys : ~(k < j /\ j < k + ConsumedAt(k))

(***************************************************************************)
(* C3.  A segment override set by a prefix byte is cleared by the decode   *)
(* of the instruction that follows the prefix, whatever its family.  Only  *)
(* the two ModRM arms clear it, so the statement fails on the code.        *)
(***************************************************************************)
C3_SegmentClearedByNext ==
    \A i \in DOMAIN history :
        (i > 1 /\ history[i - 1].arm = "segment" /\ history[i].arm # "segment") =>
            history[i].segment_after = ""

(***************************************************************************)
(* C4.  Dangling targets: when run() has returned, every relative branch   *)
(* whose target is no key of the instruction map was written with the      *)
(* target as a decimal number and with no label name, and no declaration   *)
(* line of that target's label was written; so for every branch that       *)
(* shares the target.                                                      *)
(***************************************************************************)
C4_DanglingTargetIsLiteral ==
    pc = "done" =>
        \A h \in Range(history) :
            (IsBranch(h) /\ TargetOf(h) \notin DOMAIN instructions) =>
                /\ ~Contains(LineOf(h.position), "label")
                /\ Contains(LineOf(h.position), " " \o FmtInt(TargetOf(h)) \o ";")
                /\ \A k \in DOMAIN out : out[k] # labels[TargetOf(h)] \o ":\n"
                /\ \A k \in DOMAIN out : ~Contains(out[k], labels[TargetOf(h)] \o ":")

\* Two branches that share a dangling target were written.
C4_Witness ==
    /\ pc = "done"
    /\ \E g, h \in Range(history) :
           /\ g.position < h.position
           /\ IsBranch(g)
           /\ IsBranch(h)
           /\ TargetOf(g) = TargetOf(h)
           /\ TargetOf(h) \notin DOMAIN instructions
           /\ g.arm # h.arm
           /\ ~Contains(LineOf(g.position), "label")

(***************************************************************************)
(* C5.  Label uniqueness: when run() has returned, distinct branch targets *)
(* that are keys of the instruction map have distinct names, every branch  *)
(* to such a target was written with the target's name, and the line       *)
(* "name:" was written exactly once.                                       *)
(***************************************************************************)
C5_LabelUniqueness ==
    pc = "done" =>
        LET valid == DOMAIN labels \cap DOMAIN instructions
        IN /\ \A t1, t2 \in valid : t1 # t2 => labels[t1] # labels[t2]
           /\ \A t \in valid :
                  Cardinality({k \in DOMAIN out : out[k] = labels[t] \o ":\n"}) = 1
           /\ \A h \in Range(history) :
                  (IsBranch(h) /\ TargetOf(h) \in valid) =>
                      Contains(LineOf(h.position), " " \o labels[TargetOf(h)] \o " ;")

\* Two valid targets, one of them the target of two branches.
C5_Witness ==
    /\ pc = "done"
    /\ \E g, h \in Range(history) :
           /\ g.position < h.position
           /\ IsBranch(g)
           /\ IsBranch(h)
           /\ TargetOf(g) = TargetOf(h)
           /\ TargetOf(h) \in DOMAIN instructions
    /\ Cardinality(DOMAIN labels \cap DOMAIN instructions) >= 2
    /\ Cardinality({k \in DOMAIN out : Contains(out[k], ":\n")}) >= 2

(***************************************************************************)
(* C6.  Branch targets: for every position p and every displacement d in   *)
(* range, a short branch at p with the signed 8-bit displacement d         *)
(* registers p + 2 + d in the label table, a near CALL/JMP with the signed *)
(* 16-bit displacement d registers p + 3 + d, the instruction's text names *)
(* that entry's label, and nothing else is registered.  A branch whose     *)
(* displacement bytes are all in the file therefore never stops the decode *)
(* without registering its target.                                         *)
(***************************************************************************)
\* The decode stopped at a branch whose displacement bytes are all present.
StoppedAtBranch ==
    /\ pc = "panic"
    /\ cursor < Len(bytes)
    /\ \/ Arm(bytes[cursor + 1]) = "short_jump" /\ cursor + 2 <= Len(bytes)
       \/ Arm(bytes[cursor + 1]) = "near_call_jmp" /\ cursor + 3 <= Len(bytes)

C6_BranchTarget ==
    /\ \A h \in Range(history) :
           IsBranch(h) =>
               /\ TargetOf(h) \in DOMAIN labels
               /\ Contains(h.text, " " \o labels[TargetOf(h)] \o " ;")
    /\ DOMAIN labels = {TargetOf(h) : h \in {e \in Range(history) : IsBranch(e)}}
    /\ StoppedAtBranch =>
           TargetOf([arm |-> Arm(bytes[cursor + 1]), position |-> cursor]) \in DOMAIN labels

(***************************************************************************)
(* C7.  A truncated stream is fatal: an instruction is recorded only when  *)
(* every byte it consumed is a byte of the file, an opcode that needs a    *)
(* trailing byte is recorded only with one, and when the decode stops for  *)
(* a missing byte there is no entry for the position it stopped at and     *)
(* nothing was written.                                                    *)
(***************************************************************************)
NeedsTrailingByte(byte1) ==
    Arm(byte1) \in {"reg_mem_reg", "imm_reg_mem", "mov_imm_reg", "accumulator", "ret_data",
                    "int", "rep", "short_jump", "near_call_jmp", "far_call_jmp",
                    "ascii_adjust"}

C7_TruncatedIsFatal ==
    /\ \A h \in Range(history) :
           /\ h.next <= Len(bytes)
           /\ NeedsTrailingByte(h.byte1) => h.next >= h.position + 2
    /\ (pc = "decode" /\ cursor = Len(bytes) - 1 /\ NeedsTrailingByte(bytes[Len(bytes)])) =>
           ~ENABLED DecodeInstruction
    /\ pc = "panic" =>
           /\ out = <<>>
           /\ cursor \notin DOMAIN instructions
           /\ \A h \in Range(history) : h.position # cursor

\* The file ends after the leading byte of a ModRM instruction that follows a decoded one.
C7_Witness ==
    /\ pc = "panic"
    /\ panic = "truncated"
    /\ cursor > 0
    /\ cursor = Len(bytes) - 1
    /\ Arm(bytes[cursor + 1]) = "imm_reg_mem"
    /\ DOMAIN instructions # {}

(***************************************************************************)
(* C8.  An unknown leading byte is recoverable: the decode does not stop   *)
(* at it, consumes that one byte, records at its position the comment      *)
(* "; " and the byte's bits, and goes on with the next byte.               *)
(***************************************************************************)
IsUnknown(byte1) == Arm(byte1) = "fixed" /\ FixedOpText(byte1) = ""

\* The bits of a byte, most significant first, leading zeros as spaces.
RECURSIVE RawBits(_, _)
RawBits(byte, k) ==
    LET bit == IF byte < Pow2(k) /\ k > 0 THEN " "
               ELSE IF (byte \div Pow2(k)) % 2 = 1 THEN "1" ELSE "0"
    IN IF k = 0 THEN bit ELSE bit \o RawBits(byte, k - 1)

C8_UnknownOpcodeRecoverable ==
    /\ (pc = "panic" => ~IsUnknown(bytes[cursor + 1]))
    /\ \A i \in DOMAIN history :
           IsUnknown(history[i].byte1) =>
               /\ history[i].next = history[i].position + 1
               /\ history[i].position \in DOMAIN instructions
               /\ instructions[history[i].position]
                      = "; " \o RawBits(history[i].byte1, 7) \o "\n"
               /\ i < Len(history) => history[i + 1].position = history[i].position + 1
               /\ i = Len(history) => cursor = history[i].position + 1

\* An unknown byte was decoded, and the instruction after it too.
C8_Witness ==
    /\ pc = "done"
    /\ Len(history) >= 2
    /\ IsUnknown(history[1].byte1)
    /\ history[2].position = 1
    /\ out[2] = "; " \o RawBits(history[1].byte1, 7) \o "\n"

(***************************************************************************)
(* C9.  Displacement sign: every effective address of mode 01 or 10 is     *)
(* rendered as the bare base for a displacement of 0, as base + value for  *)
(* a positive one and as base - absolute value for a negative one.  For    *)
(* the displacement -32768 the negation overflows: the decode panics or    *)
(* renders "- -32768", so the statement fails on the code.                 *)
(***************************************************************************)
HasModRM(h) == h.arm \in {"reg_mem_reg", "imm_reg_mem"}

ModOf(position) == Bits(bytes[position + 2], 6, 2)

\* The displacement field that follows the ModRM byte of the instruction at position.
DispOf(position) ==
    IF ModOf(position) = 1 THEN I8(bytes[position + 3])
    ELSE I16(bytes[position + 3], bytes[position + 4])

ExpectedEa(position) ==
    LET base == R_M_NAMES[Bits(bytes[position + 2], 0, 3) + 1]
        disp == DispOf(position)
    IN IF disp = 0 THEN "[" \o base \o "]"
       ELSE IF disp > 0 THEN "[" \o base \o " + " \o FmtInt(disp) \o "]"
       ELSE "[" \o base \o " - " \o FmtInt(-disp) \o "]"

C9_DisplacementSign ==
    /\ \A h \in Range(history) :
           (HasModRM(h) /\ ModOf(h.position) \in {1, 2}) =>
               Contains(h.text, ExpectedEa(h.position))
    /\ ~(pc = "panic" /\ panic = "overflow")

(***************************************************************************)
(* C10.  A short branch to a decoded instruction start: the line           *)
(* "label:" is written immediately before the target instruction, and the  *)
(* branch is written as "<mnemonic> <label> ; <displacement>" and a line   *)
(* break.  The code writes " short" after the displacement, so the         *)
(* statement as it stands fails on the code.                               *)
(***************************************************************************)
IsResolvedShortJump(h) == h.arm = "short_jump" /\ TargetOf(h) \in DOMAIN instructions

DeclaredBefore(target) ==
    LET e == CHOOSE x \in Range(emitted) : x.position = target
    IN e.at > 1 /\ out[e.at - 1] = labels[target] \o ":\n"

C10_ShortBranchLine ==
    pc = "done" =>
        \A h \in Range(history) :
            IsResolvedShortJump(h) =>
                /\ DeclaredBefore(TargetOf(h))
                /\ LineOf(h.position)
                       = ShortJumpOpText(h.byte1) \o " " \o labels[TargetOf(h)] \o " ; "
                             \o FmtInt(I8(bytes[h.position + 2])) \o "\n"

(***************************************************************************)
(* C10 as amended.  The branch is written as                               *)
(* "<mnemonic> <label> ; <displacement> short" and a line break, after the *)
(* declaration line of its target.                                         *)
(***************************************************************************)
C10_ShortBranchLineShort ==
    pc = "done" =>
        \A h \in Range(history) :
            IsResolvedShortJump(h) =>
                /\ DeclaredBefore(TargetOf(h))
                /\ LineOf(h.position)
                       = ShortJumpOpText(h.byte1) \o " " \o labels[TargetOf(h)] \o " ; "
                             \o FmtInt(I8(bytes[h.position + 2])) \o " short\n"

\* The bytes 01110101 11111110: a jne to its own start.
C10_Witness ==
    /\ pc = "done"
    /\ bytes = <<117, 254>>
    /\ out = <<"bits 16\n", "label0:\n", "jne label0 ; -2 short\n">>

(***************************************************************************)
(* The LOCK prefix and the operand order of register/memory <-> register   *)
(* instructions.                                                           *)
(***************************************************************************)
LockByte == 240

\* The decode iteration h is a register/memory <-> register instruction whose
\* direction bit is set (lea, les and lds hard-code d = 1).
DirectionSet(h) ==
    /\ h.arm = "reg_mem_reg"
    /\ \/ h.byte1 \in {141, 196, 197}
       \/ Bits(h.byte1, 1, 1) = 1

\* The leading byte of iteration i comes right after a LOCK prefix byte: the
\* iteration before it decoded the byte 0xF0 and ended where this one starts.
FollowsLock(i) ==
    /\ i > 1
    /\ history[i - 1].arm = "fixed"
    /\ history[i - 1].byte1 = LockByte
    /\ history[i - 1].next = history[i].position

\* The register operand named by the reg field of the ModRM byte of h.
RegOperand(h) ==
    LET w == IF h.byte1 \in {141, 196, 197} THEN 1 ELSE Bits(h.byte1, 0, 1)
    IN REG_NAMES[w + 1][Bits(bytes[h.position + 2], 3, 3) + 1]

\* The text of the same instruction at the same place decoded with no LOCK
\* prefix in effect.
WithoutPrefix(h) ==
    Decode(bytes, h.position, h.byte1, h.segment_before, FALSE, EmptyMap,
           overflow_checks).text

StartsWith(text, prefix) ==
    Len(text) >= Len(prefix) /\ SubSeq(text, 1, Len(prefix)) = prefix

EndsWith(text, suffix) ==
    /\ Len(text) >= Len(suffix)
    /\ SubSeq(text, Len(text) - Len(suffix) + 1, Len(text)) = suffix

\* "op a, b\n" with its two operands exchanged: "op b, a\n".
OperandsSwapped(text) ==
    LET sp == Find(text, " ")
        comma == Find(text, ", ")
    IN SubSeq(text, 1, sp) \o SubSeq(text, comma + 2, Len(text) - 1) \o ", "
         \o SubSeq(text, sp + 1, comma - 1) \o "\n"

RegisterFirst(h) == StartsWith(h.text, RegMemRegOpText(h.byte1) \o " " \o RegOperand(h) \o ", ")

RegisterSecond(h) == EndsWith(h.text, ", " \o RegOperand(h) \o "\n")

\* C11: every register/memory <-> register instruction with its direction bit
\* set whose leading byte immediately follows a LOCK prefix byte is rendered
\* with its operands swapped relative to the same instruction decoded without
\* the prefix: the r/m operand first and the register operand second.
C11_LockSwapsOperands ==
    \A i \in DOMAIN history :
        (DirectionSet(history[i]) /\ FollowsLock(i))
            => /\ history[i].text = OperandsSwapped(WithoutPrefix(history[i]))
               /\ RegisterSecond(history[i])

(***************************************************************************)
(* Files mixing the LOCK prefix with short jumps: LOCK (240), inc ax (64), *)
(* jne (117) with the displacements -3 and -2 (253, 254; as leading bytes  *)
(* std and the inc/dec group) and mov r16 <- r/m16 (139).                  *)
(***************************************************************************)
LockAlphabet == {240, 64, 117, 253, 254, 139}

InitLock == InitWith(Streams(LockAlphabet, MaxLen))

SpecLock == InitLock /\ [][Next]_vars

(***************************************************************************)
(* The lines of the text written to stdout.                                *)
(***************************************************************************)
RECURSIVE Concat(_)
Concat(chunks) ==
    IF chunks = <<>> THEN "" ELSE Head(chunks) \o Concat(Tail(chunks))

\* The text cut at its line breaks; a last piece with no line break after it
\* is a line too.
RECURSIVE SplitLines(_)
SplitLines(text) ==
    IF text = "" THEN <<>>
    ELSE LET nl == Find(text, "\n")
         IN IF nl = 0 THEN <<text>>
            ELSE <<SubSeq(text, 1, nl - 1)>> \o SplitLines(SubSeq(text, nl + 1, Len(text)))

OutputLines == SplitLines(Concat(out))

\* The line holds the declaration of some label of the table.
HoldsDeclaration(line) == \E label \in Range(labels) : Contains(line, label \o ":")

IsDeclarationLine(line) == \E label \in Range(labels) : line = label \o ":"

\* C12: once run() has returned, every line of the output that holds a label
\* declaration "labelN:" holds nothing else: the declaration starts at the
\* beginning of its line and no instruction or prefix text shares the line,
\* whatever instruction the label targets (the one after a LOCK prefix too).
C12_LineStructure ==
    pc = "done" =>
        \A k \in DOMAIN OutputLines :
            HoldsDeclaration(OutputLines[k]) => IsDeclarationLine(OutputLines[k])

\* C13: the LOCK flag never reaches a second instruction: a decode iteration
\* sees `locked` set only when its leading byte immediately follows a LOCK
\* prefix byte, and every register/memory <-> register instruction with its
\* direction bit set whose leading byte does not immediately follow a LOCK
\* prefix byte is rendered register-first, as with no prefix at all.
C13_LockDoesNotLeak ==
    \A i \in DOMAIN history :
        /\ history[i].locked => FollowsLock(i)
        /\ (DirectionSet(history[i]) /\ ~FollowsLock(i))
               => /\ RegisterFirst(history[i])
                  /\ history[i].text = WithoutPrefix(history[i])

\* lock, inc ax, mov ax, [bx]: the inc is decoded with the flag set, the mov
\* two iterations after the LOCK byte is decoded with the flag clear and
\* written register-first.
C13_Witness ==
    /\ pc = "done"
    /\ bytes = <<LockByte, 64, 139, 7>>
    /\ Len(history) = 3
    /\ history[2].locked
    /\ ~history[3].locked
    /\ DirectionSet(history[3]) /\ ~FollowsLock(3)
    /\ history[3].text = "mov ax, [bx]\n"
    /\ out = <<"bits 16\n", "lock ", "inc ax\n", "mov ax, [bx]\n">>

=============================================================================
